---- MODULE Spec2Model ----
(***************************************************************************)
(* Model of generate-icons.py: create_icon(size, output_path) draws a      *)
(* fixed-ratio icon on a fresh RGBA canvas and saves it as a PNG; main()   *)
(* creates the output directory and calls create_icon for 192 and 512.     *)
(*                                                                         *)
(* A canvas is modelled by its dimensions and the list of drawing calls    *)
(* made on it, each with the arguments the code passes.  The filesystem is *)
(* the set of existing directories of the output directory's chain and the *)
(* content of each icon file.  Every statement of create_icon is one step  *)
(* of a call record, so that two calls can be interleaved.                 *)
(***************************************************************************)
EXTENDS Integers, Sequences, FiniteSets

VARIABLES dirs,    \* the directories that exist
          files,   \* content of every file path
          out,     \* the messages printed so far
          calls,   \* the create_icon calls: size, path, position, canvas
          mainpc,  \* position of main()
          exit,    \* process exit status: "running", "0" or "1"
          start,   \* filesystem at the start of the run in progress
          runs,    \* number of create_icon runs started on their own
          first    \* file content the first successful run left at its path

vars == <<dirs, files, out, calls, mainpc, exit, start, runs, first>>

-----------------------------------------------------------------------------
(* Bounds of the model.  The layout divides by 2, 3, 6, 8 and 20, so sizes up *)
(* to 120 cover every combination of remainders.                            *)

MaxSize == 120
MaxRuns == 2

(* Sizes main() asks for *)
Size192 == 192
Size512 == 512

Sizes == (1..MaxSize) \cup {Size192, Size512}

-----------------------------------------------------------------------------
(* Filesystem *)

\* output_dir and its parents, outermost first
DirChain == << "/home/ubuntu/live-shopping-network",
               "/home/ubuntu/live-shopping-network/client",
               "/home/ubuntu/live-shopping-network/client/public" >>

output_dir == DirChain[Len(DirChain)]

P192 == "/home/ubuntu/live-shopping-network/client/public/icon-192.png"
P512 == "/home/ubuntu/live-shopping-network/client/public/icon-512.png"

FilePaths == {P192, P512}

\* both icon files live directly in output_dir
ParentDir(path) == output_dir

Absent  == [kind |-> "absent",  mode |-> "",     width |-> 0, height |-> 0, ops |-> <<>>]
Partial == [kind |-> "partial", mode |-> "",     width |-> 0, height |-> 0, ops |-> <<>>]
Stale   == [kind |-> "png",     mode |-> "RGB",  width |-> 3, height |-> 5, ops |-> <<>>]

\* the first n directories of the chain
Prefix(n) == { DirChain[k] : k \in 1..n }

\* filesystems the program can start in: a prefix of the chain exists, and
\* a file exists only when its directory does
StartStates ==
    { s \in [dirs  : { Prefix(n) : n \in 0..Len(DirChain) },
             files : [FilePaths -> {Absent, Partial, Stale}]] :
        \A p \in FilePaths : s.files[p] # Absent => ParentDir(p) \in s.dirs }

\* faulty variant: the directory is not created
makedirs_noop(d) == d

\* os.makedirs(output_dir, exist_ok=True): every missing directory of the
\* chain is created, an existing one is left alone
makedirs(d) == d \cup Prefix(Len(DirChain))

-----------------------------------------------------------------------------
(* Layout arithmetic of create_icon, with Python's floor division *)

\* faulty variant: the inset is rounded up
margin_ceil(size) == (size + 7) \div 8

\* faulty variant: half the handle's width is taken to be a quarter of the size
handle_width_quarter(size) == size \div 4

\* faulty variant: the handle's box is hung from the bag's bottom edge
handle_top_bottom(size) == (size * 2) \div 3 - (size \div 6) \div 2

margin(size)        == size \div 8
margin2(size)       == size \div 6
bag_top(size)       == size \div 3
bag_bottom(size)    == (size * 2) \div 3
bag_left(size)      == size \div 3
bag_right(size)     == (size * 2) \div 3
handle_width(size)  == size \div 8
handle_height(size) == size \div 6
handle_left(size)   == size \div 2 - handle_width(size)
handle_right(size)  == size \div 2 + handle_width(size)
handle_top(size)    == bag_top(size) - handle_height(size) \div 2
handle_bottom(size) == bag_top(size) + handle_height(size) \div 2
stroke(size)        == size \div 20

Purple == "#9333ea"
White  == "white"

-----------------------------------------------------------------------------
(* The canvas and the drawing calls *)

NoImage == [mode |-> "", width |-> 0, height |-> 0, ops |-> <<>>]

\* faulty variant: the canvas is always 192 x 192
Image_new_192(size) == [mode |-> "RGBA", width |-> 192, height |-> 192, ops |-> <<>>]

\* Image.new('RGBA', (size, size), (0, 0, 0, 0))
Image_new(size) == [mode |-> "RGBA", width |-> size, height |-> size, ops |-> <<>>]

Shape(kind, box, fill, a0, a1, w) ==
    [shape |-> kind, box |-> box, fill |-> fill, start |-> a0, end |-> a1, width |-> w]

\* draw.ellipse([0, 0, size, size], fill='#9333ea')
Background(size) == Shape("ellipse", <<0, 0, size, size>>, Purple, 0, 0, 0)

\* draw.ellipse([margin, margin, size-margin, size-margin], fill='white')
Ring(size) ==
    Shape("ellipse",
          <<margin(size), margin(size), size - margin(size), size - margin(size)>>,
          White, 0, 0, 0)

\* draw.ellipse([margin2, margin2, size-margin2, size-margin2], fill='#9333ea')
Inner(size) ==
    Shape("ellipse",
          <<margin2(size), margin2(size), size - margin2(size), size - margin2(size)>>,
          Purple, 0, 0, 0)

\* draw.rectangle([bag_left, bag_top, bag_right, bag_bottom], fill='white')
BagBody(size) ==
    Shape("rectangle",
          <<bag_left(size), bag_top(size), bag_right(size), bag_bottom(size)>>,
          White, 0, 0, 0)

\* draw.arc([handle_left, handle_top, handle_right, bag_top + handle_height // 2],
\*          start=0, end=180, fill='white', width=size//20)
Handle(size) ==
    Shape("arc",
          <<handle_left(size), handle_top(size), handle_right(size), handle_bottom(size)>>,
          White, 0, 180, stroke(size))

\* the drawing library takes a box [x0, y0, x1, y1] only with x1 >= x0 and y1 >= y0
Accepted(box) == box[1] <= box[3] /\ box[2] <= box[4]

\* one drawing call of call record c: the shape lands on the canvas, or the
\* library raises ValueError and create_icon is left through the exception
Draw(c, sh, next) ==
    IF Accepted(sh.box)
    THEN [c EXCEPT !.img.ops = Append(@, sh), !.pc = next]
    ELSE [c EXCEPT !.pc = "raised", !.err = "ValueError"]

\* PNG encoding of the canvas: the file holds the canvas' mode, size and picture
Encode(img) ==
    [kind |-> "png", mode |-> img.mode, width |-> img.width, height |-> img.height,
     ops |-> img.ops]

\* faulty variant: an existing PNG is kept instead of being overwritten
save_keep(f, path, img) ==
    IF f[path].kind = "png" THEN f ELSE [f EXCEPT ![path] = Encode(img)]

\* faulty variant: the default icon is written along with the requested file
save_and_192(f, path, img) == [f EXCEPT ![path] = Encode(img), ![P192] = Encode(img)]

\* faulty variant: the file name is ignored, every icon goes to icon-192.png
save_to_192(f, path, img) == [f EXCEPT ![P192] = Encode(img)]

\* img.save(output_path, 'PNG') succeeding: the one file at path is replaced
save(f, path, img) == [f EXCEPT ![path] = Encode(img)]

\* an exception raised inside create_icon or main is caught nowhere
Raise(c, e) == [c EXCEPT !.pc = "raised", !.err = e]

\* the canvas create_icon has drawn when it reaches line 42 (lines 10-39 in order)
Drawn(size) ==
    LET c0 == [size |-> size, path |-> "", pc |-> "bg", img |-> Image_new(size),
               err |-> "none"]
        c1 == Draw(c0, Background(size), "ring")
        c2 == Draw(c1, Ring(size), "inner")
        c3 == Draw(c2, Inner(size), "bag")
        c4 == Draw(c3, BagBody(size), "handle")
        c5 == Draw(c4, Handle(size), "save")
    IN  c5.img

\* Angles are measured clockwise from 3 o'clock on a canvas whose y grows
\* downward: the point at offset (dx, dy) from the centre lies in quadrant
\* 0 (0-90 degrees) when dx >= 0 and dy >= 0, 1 (90-180) when dx <= 0 and
\* dy >= 0, 2 (180-270) when dx <= 0 and dy <= 0, 3 (270-360) otherwise.
InQuadrant(q, dx, dy) ==
    CASE q = 0 -> dx >= 0 /\ dy >= 0
      [] q = 1 -> dx <= 0 /\ dy >= 0
      [] q = 2 -> dx <= 0 /\ dy <= 0
      [] q = 3 -> dx >= 0 /\ dy <= 0

\* sweeps that start and end on a multiple of 90 degrees
InSweep(a0, a1, dx, dy) ==
    \E q \in 0..3 : a0 <= 90 * q /\ 90 * (q + 1) <= a1 /\ InQuadrant(q, dx, dy)

\* The pixels an arc paints: those of its box that lie in the sweep, inside
\* the ellipse inscribed in the box and not inside the ellipse inset by the
\* stroke width.  Offsets are doubled (dx = 2x - (x0 + x1)) to stay integral.
\* A stroke narrower than one pixel is taken to paint nothing.
ArcPixels(sh) ==
    LET x0 == sh.box[1]
        y0 == sh.box[2]
        x1 == sh.box[3]
        y1 == sh.box[4]
        a  == x1 - x0
        b  == y1 - y0
        ai == a - 2 * sh.width
        bi == b - 2 * sh.width
        Dx(x) == 2 * x - (x0 + x1)
        Dy(y) == 2 * y - (y0 + y1)
        Outer(x, y) == Dx(x) * Dx(x) * b * b + Dy(y) * Dy(y) * a * a <= a * a * b * b
        Hole(x, y)  == /\ ai > 0
                       /\ bi > 0
                       /\ Dx(x) * Dx(x) * bi * bi + Dy(y) * Dy(y) * ai * ai < ai * ai * bi * bi
    IN  IF sh.width < 1 THEN {}
        ELSE { px \in (x0..x1) \X (y0..y1) :
                 /\ InSweep(sh.start, sh.end, Dx(px[1]), Dy(px[2]))
                 /\ Outer(px[1], px[2])
                 /\ ~Hole(px[1], px[2]) }

Generated(path, size) == [msg |-> "generated", path |-> path, size |-> size]
AllDone               == [msg |-> "all",       path |-> "",   size |-> 0]

IdleCall(size, path) ==
    [size |-> size, path |-> path, pc |-> "idle", img |-> NoImage, err |-> "none"]

-----------------------------------------------------------------------------
(* The steps of create_icon, for the call record calls[i] *)

\* lines 10-11
NewImage(i) ==
    /\ calls[i].pc = "new"
    /\ calls' = [calls EXCEPT ![i].img = Image_new(calls[i].size), ![i].pc = "bg"]
    /\ UNCHANGED <<dirs, files, out, mainpc, exit, start, runs, first>>

\* line 14
DrawBackground(i) ==
    /\ calls[i].pc = "bg"
    /\ calls' = [calls EXCEPT ![i] = Draw(@, Background(@.size), "ring")]
    /\ UNCHANGED <<dirs, files, out, mainpc, exit, start, runs, first>>

\* lines 17-18
DrawRing(i) ==
    /\ calls[i].pc = "ring"
    /\ calls' = [calls EXCEPT ![i] = Draw(@, Ring(@.size), "inner")]
    /\ UNCHANGED <<dirs, files, out, mainpc, exit, start, runs, first>>

\* lines 21-22
DrawInner(i) ==
    /\ calls[i].pc = "inner"
    /\ calls' = [calls EXCEPT ![i] = Draw(@, Inner(@.size), "bag")]
    /\ UNCHANGED <<dirs, files, out, mainpc, exit, start, runs, first>>

\* lines 26-30
DrawBag(i) ==
    /\ calls[i].pc = "bag"
    /\ calls' = [calls EXCEPT ![i] = Draw(@, BagBody(@.size), "handle")]
    /\ UNCHANGED <<dirs, files, out, mainpc, exit, start, runs, first>>

\* lines 33-39
DrawHandle(i) ==
    /\ calls[i].pc = "handle"
    /\ calls' = [calls EXCEPT ![i] = Draw(@, Handle(@.size), "save")]
    /\ UNCHANGED <<dirs, files, out, mainpc, exit, start, runs, first>>

\* the first content a successful run leaves is remembered for comparison
Remember(content) == IF first = Absent THEN content ELSE first

\* line 42, the write succeeds: possible only when the file's directory exists
SaveOk(i) ==
    /\ calls[i].pc = "save"
    /\ ParentDir(calls[i].path) \in dirs
    /\ files' = save(files, calls[i].path, calls[i].img)
    /\ first' = Remember(files'[calls[i].path])
    /\ calls' = [calls EXCEPT ![i].pc = "print"]
    /\ UNCHANGED <<dirs, out, mainpc, exit, start, runs>>

\* line 42, the write fails (missing directory, permissions, disk full): the
\* file is untouched, or left truncated when the failure came after it was opened
SaveFail(i) ==
    /\ calls[i].pc = "save"
    /\ \E content \in IF ParentDir(calls[i].path) \in dirs
                      THEN {files[calls[i].path], Partial}
                      ELSE {files[calls[i].path]} :
          files' = [files EXCEPT ![calls[i].path] = content]
    /\ calls' = [calls EXCEPT ![i] = Raise(@, "OSError")]
    /\ UNCHANGED <<dirs, out, mainpc, exit, start, runs, first>>

\* line 43
PrintOk(i) ==
    /\ calls[i].pc = "print"
    /\ out' = Append(out, Generated(calls[i].path, calls[i].size))
    /\ calls' = [calls EXCEPT ![i].pc = "returned"]
    /\ UNCHANGED <<dirs, files, mainpc, exit, start, runs, first>>

\* line 43, writing to standard output fails
PrintFail(i) ==
    /\ calls[i].pc = "print"
    /\ calls' = [calls EXCEPT ![i] = Raise(@, "OSError")]
    /\ UNCHANGED <<dirs, files, out, mainpc, exit, start, runs, first>>

create_icon(i) ==
    \/ NewImage(i)
    \/ DrawBackground(i)
    \/ DrawRing(i)
    \/ DrawInner(i)
    \/ DrawBag(i)
    \/ DrawHandle(i)
    \/ SaveOk(i)
    \/ SaveFail(i)
    \/ PrintOk(i)
    \/ PrintFail(i)

-----------------------------------------------------------------------------
(* main() *)

\* lines 51-52: the two calls main makes, in order
MainCalls == << IdleCall(Size192, P192), IdleCall(Size512, P512) >>

\* position of main while its k-th call runs, and after it has returned
MainAt(k)    == << "icon192", "icon512" >>[k]
MainAfter(k) == << "icon512", "print" >>[k]

\* faulty variant: the exception is swallowed and main goes on with its next statement
Swallowed(k) == [mainpc |-> MainAfter(k), exit |-> "running"]

\* an exception leaving the k-th call is handled nowhere in main: the
\* interpreter prints the traceback and exits with status 1
Uncaught(k) == [mainpc |-> "exited", exit |-> "1"]

Init ==
    /\ \E s \in StartStates : dirs = s.dirs /\ files = s.files /\ start = s
    /\ out = <<>>
    /\ calls = MainCalls
    /\ mainpc = "makedirs"
    /\ exit = "running"
    /\ runs = 0
    /\ first = Absent

\* line 48
MakedirsOk ==
    /\ mainpc = "makedirs"
    /\ dirs' = makedirs(dirs)
    /\ mainpc' = MainAt(1)
    /\ UNCHANGED <<files, out, calls, exit, start, runs, first>>

\* line 48 raising OSError: some of the missing parents may have been created
MakedirsFail ==
    /\ mainpc = "makedirs"
    /\ \E n \in 0..(Len(DirChain) - 1) : dirs' = dirs \cup Prefix(n)
    /\ mainpc' = "exited"
    /\ exit' = "1"
    /\ UNCHANGED <<files, out, calls, start, runs, first>>

\* lines 51, 52: main enters create_icon
CallIcon(k) ==
    /\ mainpc = MainAt(k)
    /\ calls[k].pc = "idle"
    /\ calls' = [calls EXCEPT ![k].pc = "new"]
    /\ UNCHANGED <<dirs, files, out, mainpc, exit, start, runs, first>>

\* create_icon returns to main
Return(k) ==
    /\ mainpc = MainAt(k)
    /\ calls[k].pc = "returned"
    /\ mainpc' = MainAfter(k)
    /\ UNCHANGED <<dirs, files, out, calls, exit, start, runs, first>>

\* create_icon is left through an exception
Propagate(k) ==
    /\ mainpc = MainAt(k)
    /\ calls[k].pc = "raised"
    /\ mainpc' = Uncaught(k).mainpc
    /\ exit' = Uncaught(k).exit
    /\ UNCHANGED <<dirs, files, out, calls, start, runs, first>>

\* line 54, then main returns and the interpreter exits with status 0
PrintDoneOk ==
    /\ mainpc = "print"
    /\ out' = Append(out, AllDone)
    /\ mainpc' = "exited"
    /\ exit' = "0"
    /\ UNCHANGED <<dirs, files, calls, start, runs, first>>

\* line 54, writing to standard output fails
PrintDoneFail ==
    /\ mainpc = "print"
    /\ mainpc' = "exited"
    /\ exit' = "1"
    /\ UNCHANGED <<dirs, files, out, calls, start, runs, first>>

Next ==
    \/ MakedirsOk
    \/ MakedirsFail
    \/ \E k \in 1..2 : CallIcon(k)
    \/ \E k \in 1..2 : create_icon(k)
    \/ \E k \in 1..2 : Return(k)
    \/ \E k \in 1..2 : Propagate(k)
    \/ PrintDoneOk
    \/ PrintDoneFail

Spec == Init /\ [][Next]_vars

-----------------------------------------------------------------------------
(* create_icon on its own: any size, any path, run up to MaxRuns times, each *)
(* run from a filesystem state of its own choice                            *)

InitIcon ==
    /\ \E s \in StartStates : dirs = s.dirs /\ files = s.files /\ start = s
    /\ \E size \in Sizes, path \in FilePaths : calls = << IdleCall(size, path) >>
    /\ out = <<>>
    /\ mainpc = "none"
    /\ exit = "running"
    /\ runs = 0
    /\ first = Absent

\* line 7: create_icon is entered.  The first run starts in the initial
\* filesystem; a later run starts where the last one ended or in any other
\* state the filesystem can be in by then
Invoke ==
    /\ calls[1].pc \in {"idle", "returned"}
    /\ runs < MaxRuns
    /\ \E s \in IF runs = 0 THEN {start}
                ELSE StartStates \cup {[dirs |-> dirs, files |-> files]} :
          /\ dirs' = s.dirs
          /\ files' = s.files
          /\ start' = s
    /\ runs' = runs + 1
    /\ calls' = [calls EXCEPT ![1].pc = "new", ![1].img = NoImage]
    /\ UNCHANGED <<out, mainpc, exit, first>>

NextIcon == Invoke \/ create_icon(1)

SpecIcon == InitIcon /\ [][NextIcon]_vars

-----------------------------------------------------------------------------
(* The two calls of main run side by side, their steps interleaved *)

InitPar ==
    /\ \E s \in StartStates : dirs = s.dirs /\ files = s.files /\ start = s
    /\ calls = [k \in 1..2 |-> [MainCalls[k] EXCEPT !.pc = "new"]]
    /\ out = <<>>
    /\ mainpc = "none"
    /\ exit = "running"
    /\ runs = 0
    /\ first = Absent

NextPar == \E k \in 1..2 : create_icon(k)

SpecPar == InitPar /\ [][NextPar]_vars

-----------------------------------------------------------------------------
(* Properties *)

Written(c)  == c.pc \in {"print", "returned"}
IsIcon(content, size) ==
    content.kind = "png" /\ content.width = size /\ content.height = size
Printed(m)  == \E n \in 1..Len(out) : out[n] = m
OtherPaths(c) == FilePaths \ {c.path}

\* C1: for every size, once create_icon(size, path) has saved, the file at
\* path is a PNG of exactly size x size pixels, whatever was there before.
C1_Dimensions ==
    \A i \in DOMAIN calls :
        Written(calls[i]) => IsIcon(files[calls[i].path], calls[i].size)

C1_Witness ==
    /\ calls[1].pc = "returned"
    /\ calls[1].size = Size512
    /\ start.files[calls[1].path] = Stale

\* C2: every successful run of create_icon(size, path) leaves at path the
\* content the first successful run left there, whether the run follows the
\* first directly or starts from another filesystem state.
C2_Deterministic ==
    Written(calls[1]) => files[calls[1].path] = first

C2_Witness ==
    /\ runs = 2
    /\ calls[1].pc = "returned"
    /\ first.kind = "png"
    /\ start.files[calls[1].path] # first

\* C3: create_icon(1, path) is rejected by no drawing call although its
\* insets, bag box, handle box and stroke width are all 0, and when the
\* write succeeds the file at path is a 1 x 1 PNG.
C3_SizeOne ==
    LET c == calls[1] IN
    c.size = 1 =>
        /\ c.err # "ValueError"
        /\ c.pc \in {"save", "print", "returned"} =>
              /\ Len(c.img.ops) = 5
              /\ c.img.ops[2].box = <<0, 0, 1, 1>>
              /\ c.img.ops[3].box = <<0, 0, 1, 1>>
              /\ c.img.ops[4].box = <<0, 0, 0, 0>>
              /\ c.img.ops[5].box = <<0, 0, 0, 0>>
              /\ c.img.ops[5].width = 0
        /\ Written(c) => IsIcon(files[c.path], 1)

C3_Witness ==
    calls[1].size = 1 /\ calls[1].pc = "returned"

\* C4: main creates the output directory and its parents before it enters
\* create_icon; when it exits with status 0 the directory exists and holds
\* icon-192.png (192 x 192) and icon-512.png (512 x 512); the completion
\* message is printed only with both files written; and no call fails for a
\* reason other than an I/O failure.
C4_MainFromMissingDir ==
    /\ \A k \in 1..2 :
          /\ calls[k].pc # "idle" => Prefix(Len(DirChain)) \subseteq dirs
          /\ calls[k].err # "ValueError"
    /\ (exit = "0" \/ Printed(AllDone)) =>
          /\ Prefix(Len(DirChain)) \subseteq dirs
          /\ IsIcon(files[P192], Size192)
          /\ IsIcon(files[P512], Size512)
          /\ calls[1].pc = "returned"
          /\ calls[2].pc = "returned"
    /\ exit = "0" =>
          out = << Generated(P192, Size192), Generated(P512, Size512), AllDone >>

C4_Witness ==
    /\ exit = "0"
    /\ start.dirs = {}

\* C5: an I/O failure ends the run where it happens.  A failed makedirs
\* leaves the files and the output untouched; a call left through an
\* exception has printed no confirmation, no later call is entered, the
\* completion message is not printed and the status is not 0; the status is
\* 0 only with both files written.
C5_FailureAborts ==
    /\ (mainpc = "exited" /\ calls[1].pc = "idle") =>
          exit = "1" /\ out = <<>> /\ files = start.files
    /\ \A k \in 1..2 :
          calls[k].pc = "raised" =>
              /\ ~Printed(Generated(calls[k].path, calls[k].size))
              /\ ~Printed(AllDone)
              /\ exit # "0"
              /\ mainpc \in {MainAt(k), "exited"}
              /\ \A j \in (k + 1)..2 :
                    /\ calls[j].pc = "idle"
                    /\ files[calls[j].path] = start.files[calls[j].path]
    /\ mainpc = "exited" => exit \in {"0", "1"}
    /\ exit = "1" => ~Printed(AllDone)
    /\ exit = "0" => IsIcon(files[P192], Size192) /\ IsIcon(files[P512], Size512)

C5_Witness ==
    /\ exit = "1"
    /\ calls[1].pc = "raised"
    /\ calls[1].err = "OSError"
    /\ files[P192] = Partial
    /\ calls[2].pc = "idle"

\* C6: a run of create_icon changes no directory and no file other than the
\* one at path; that file is untouched until the write and holds the
\* encoded canvas after it.
C6_Frame ==
    LET c == calls[1] IN
    c.pc \notin {"idle", "raised"} =>
        /\ dirs = start.dirs
        /\ \A p \in OtherPaths(c) : files[p] = start.files[p]
        /\ ~Written(c) => files[c.path] = start.files[c.path]
        /\ Written(c) => files[c.path] = Encode(c.img)

C6_Witness ==
    /\ calls[1].pc = "returned"
    /\ calls[1].path = P512
    /\ start.files[P192] = Stale
    /\ files[P192] = Stale

\* C7: every pixel the handle arc paints has a y coordinate no greater than
\* the bag's top edge size // 3.
C7_HandleAboveBag ==
    LET c == calls[1] IN
    c.pc = "save" =>
        \A px \in ArcPixels(c.img.ops[5]) : px[2] <= bag_top(c.size)

\* C8 as stated: the handle's box is centred on size // 2, is size // 4 wide
\* and the stroke is size // 20 thick.
C8_WidthIsQuarter ==
    LET c == calls[1] IN
    c.pc = "save" =>
        /\ c.img.ops[5].box[1] + c.img.ops[5].box[3] = 2 * (c.size \div 2)
        /\ c.img.ops[5].box[3] - c.img.ops[5].box[1] = c.size \div 4
        /\ c.img.ops[5].width = c.size \div 20

\* C8 amended: the handle's box is centred on size // 2, is 2 * (size // 8)
\* wide, which is size // 4 exactly when size mod 8 < 4, and the stroke is
\* size // 20 thick.
C8_WidthIsTwiceEighth ==
    LET c == calls[1] IN
    c.pc = "save" =>
        /\ c.img.ops[5].shape = "arc"
        /\ c.img.ops[5].box[1] + c.img.ops[5].box[3] = 2 * (c.size \div 2)
        /\ c.img.ops[5].box[3] - c.img.ops[5].box[1] = 2 * (c.size \div 8)
        /\ (c.img.ops[5].box[3] - c.img.ops[5].box[1] = c.size \div 4)
              <=> (c.size % 8 < 4)
        /\ c.img.ops[5].width = c.size \div 20

C8_Witness ==
    /\ calls[1].pc = "save"
    /\ calls[1].size % 8 >= 4
    /\ calls[1].size >= 20

\* C9: when the 192 and the 512 call have both saved, in whatever order
\* their steps were taken, the filesystem is the one the sequential order
\* of main leaves: the starting one with the two icons written.
C9_OrderIndependent ==
    (Written(calls[1]) /\ Written(calls[2])) =>
        /\ dirs = start.dirs
        /\ files = save(save(start.files, P192, Drawn(Size192)), P512, Drawn(Size512))

C9_Witness ==
    /\ calls[1].pc = "returned"
    /\ calls[2].pc = "returned"
    /\ out[1].size = Size512
    /\ start.files[P192] = Stale

\* C10: for every size, no drawing call of create_icon is rejected, and the
\* five boxes on the finished canvas each have left <= right and top <= bottom.
C10_BoxesOrdered ==
    LET c == calls[1] IN
    /\ c.err # "ValueError"
    /\ c.pc = "save" =>
          /\ Len(c.img.ops) = 5
          /\ \A n \in 1..5 :
                /\ c.img.ops[n].box[1] <= c.img.ops[n].box[3]
                /\ c.img.ops[n].box[2] <= c.img.ops[n].box[4]

C10_Witness ==
    /\ calls[1].pc = "save"
    /\ calls[1].size = Size192
    /\ calls[1].img.ops[5].box[2] < calls[1].img.ops[5].box[4]

====
